---------------------------- MODULE Spec2Model ----------------------------
(***************************************************************************)
(* Document ingestion pipeline of the RAG backend:                         *)
(*   - PDFService.chunk_text, the chunk-boundary loop                      *)
(*     (backend/services/pdf_service.py), one loop iteration per step;     *)
(*   - the per-document processing state machine kept in the module-level  *)
(*     dict processing_status and driven by upload_document,               *)
(*     process_document and delete_document (backend/routes/documents.py). *)
(*                                                                         *)
(* Text is a sequence of one-character strings.  Python's slice, rfind and *)
(* strip are modelled by what they compute, negative indices included.     *)
(* The handlers are asyncio coroutines: the code between two `await`s of a *)
(* handler runs without interleaving, which the variable cur records.      *)
(***************************************************************************)
EXTENDS Integers, Sequences, FiniteSets, TLC

VARIABLES
    chunk_size,         \* settings.chunk_size
    chunk_overlap,      \* settings.chunk_overlap
    text,               \* chunk_text: argument text
    page_boundaries,    \* chunk_text: argument page_boundaries
    start,              \* chunk_text: local start (the cursor)
    chunk_index,        \* chunk_text: local chunk_index
    chunks,             \* chunk_text: local chunks (the result list)
    last_end,           \* chunk_text: local end, as the last iteration left it
    chunk_end,          \* chunk_text: local end when the last chunk was appended
    cpc,                \* chunk_text: "idle" | "call" | "loop" | "body" | "done"
    processing_status,  \* documents.py: dict doc_id -> ProcessingStatus
    pdf_files,          \* upload_dir: doc id -> page texts of <doc_id>.pdf
    meta_files,         \* upload_dir: doc id -> page count of <doc_id>.meta
    vectors,            \* the vector index: records id, doc_id, page_num
    used_ids,           \* doc ids uuid4 has handed out
    pc,                 \* per doc id: position of its upload / process_document
    delpc,              \* per doc id: a delete_document call, or its answer
    run_chunks,         \* process_document: local chunks
    run_pages,          \* process_document: argument page_count
    upsert_i,           \* upsert_chunk_vectors_batch: loop variable i
    calls,              \* per doc id: external calls made by its run
    cur,                \* the coroutine running between two awaits, or NoDoc
    reply,              \* the last answer of get_processing_status
    request,            \* chat: the ChatRequest being served, or the last one
    qpc,                \* process_query: "idle" | "embedding" | "searching"
                        \*                | "generating" | "done"
    matches,            \* process_query: local matches
    qcalls,             \* external calls made for the request
    response,           \* chat: the answer of chat_with_documents
    upload_reply        \* the last answer of an upload that was rejected

cvars == <<text, page_boundaries, start, chunk_index, chunks, last_end,
           chunk_end, cpc>>
svars == <<chunk_size, chunk_overlap>>
ovars == <<processing_status, pdf_files, meta_files, vectors, used_ids, pc,
           delpc, run_chunks, run_pages, upsert_i, calls, cur, reply,
           request, qpc, matches, qcalls, response, upload_reply>>
qvars == <<request, qpc, matches, qcalls, response>>
vars == <<svars, cvars, ovars>>

----------------------------------------------------------------------------
(* Bounds of the model *)

MaxLen == 5
MaxChunkSize == 4

Alphabet == {"a", " ", "\n", "."}

Texts == UNION {[1..n -> Alphabet] : n \in 0..MaxLen}

----------------------------------------------------------------------------
(* Python primitives used by chunk_text *)

Min(a, b) == IF a < b THEN a ELSE b

Max(a, b) == IF a > b THEN a ELSE b

\* str.isspace of one character
Whitespace == {" ", "\n"}

\* A slice bound i applied to a string of length n: negative bounds count
\* from the end, and every bound is clamped to 0..n.
PyIndex(i, n) == IF i < 0 THEN Max(i + n, 0) ELSE Min(i, n)

\* s[i:j]
PySlice(s, i, j) ==
    LET lo == PyIndex(i, Len(s))
        hi == PyIndex(j, Len(s))
    IN  IF lo < hi THEN SubSeq(s, lo + 1, hi) ELSE <<>>

\* s[i:]
PySliceFrom(s, i) == PySlice(s, i, Len(s))

\* s.rfind(sep): the highest 0-based index at which sep occurs in s, or -1
RFind(s, sep) ==
    LET P == {p \in 0..(Len(s) - Len(sep)) :
                 \A k \in 1..Len(sep) : s[p + k] = sep[k]}
    IN  IF P = {} THEN -1 ELSE CHOOSE p \in P : \A q \in P : q <= p

\* Strip that returns the slice as it is
Strip_None(s) == s

\* s.strip()
Strip(s) ==
    LET N == {k \in 1..Len(s) : s[k] \notin Whitespace}
    IN  IF N = {} THEN <<>>
        ELSE SubSeq(s, CHOOSE k \in N : \A m \in N : k <= m,
                       CHOOSE k \in N : \A m \in N : m <= k)

----------------------------------------------------------------------------
(* PDFService.chunk_text *)

\* the look-behind / look-ahead distance around the tentative end
Window == 50

\* the separators in the order the loop tries them
Separators == << <<".", " ">>, <<"?", " ">>, <<"!", " ">>,
                 <<"\n", "\n">>, <<"\n">> >>

SearchStart(s, end) == Max(end - Window, s)

SearchText(t, s, end) ==
    IF end + Window < Len(t)
    THEN PySlice(t, SearchStart(s, end), end + Window)
    ELSE PySliceFrom(t, SearchStart(s, end))

\* best_break after the `for sep in [...]` loop, tried from separator i on
RECURSIVE BestBreakFrom(_, _, _, _)
BestBreakFrom(i, t, s, end) ==
    IF i > Len(Separators) THEN -1
    ELSE LET sep == Separators[i]
             pos == RFind(SearchText(t, s, end), sep)
             actual_pos == SearchStart(s, end) + pos + Len(sep)
         IN  IF pos # -1 /\ actual_pos > s /\ actual_pos <= end + Window
             THEN actual_pos
             ELSE BestBreakFrom(i + 1, t, s, end)

BestBreak(t, s, end) == BestBreakFrom(1, t, s, end)

\* end of the slice of one iteration that begins at cursor s
ChunkEnd(t, s, size) ==
    LET end0 == s + size
        end1 == IF end0 < Len(t)
                THEN (IF BestBreak(t, s, end0) > s
                      THEN BestBreak(t, s, end0) ELSE end0)
                ELSE end0
    IN  Min(end1, Len(t))

\* page_num of a chunk that starts at cursor s
RECURSIVE PageFrom(_, _, _, _)
PageFrom(i, pb, s, page_num) ==
    IF i > Len(pb) THEN page_num
    ELSE IF s >= pb[i][2] THEN PageFrom(i + 1, pb, s, pb[i][1])
    ELSE page_num

PageOf(pb, s) == PageFrom(1, pb, s, 1)

TextChunk(t, idx, page, s) ==
    [text |-> t, chunk_index |-> idx, page_num |-> page, start_char |-> s]

\* NextIndex with the counter advanced on every iteration
NextIndex_EveryIteration(idx, emitted) == idx + 1

\* chunk_index after one iteration
NextIndex(idx, emitted) == IF emitted THEN idx + 1 ELSE idx

\* NextStart without the forward-progress guard
NextStart_NoGuard(end, overlap, cs) == end - overlap

\* the cursor after one iteration: `start = end - overlap`, then
\* `if start <= chunks[-1].start_char if chunks else 0: start = end`,
\* which Python reads as `if ((start <= ...) if chunks else 0):`
NextStart(end, overlap, cs) ==
    LET s == end - overlap
        guard == IF cs # <<>> THEN s <= cs[Len(cs)].start_char ELSE FALSE
    IN  IF guard THEN end ELSE s

\* ChunkTextCall without `if not text: return []`
ChunkTextCall_NoEmptyCheck ==
    /\ cpc = "call"
    /\ cpc' = "loop"
    /\ chunks' = <<>>
    /\ start' = 0
    /\ chunk_index' = 0
    /\ last_end' = 0
    /\ chunk_end' = 0
    /\ UNCHANGED <<text, page_boundaries>>

\* `if not text: return []`, else the locals before the loop
ChunkTextCall ==
    /\ cpc = "call"
    /\ cpc' = IF text = <<>> THEN "done" ELSE "loop"
    /\ chunks' = <<>>
    /\ start' = 0
    /\ chunk_index' = 0
    /\ last_end' = 0
    /\ chunk_end' = 0
    /\ UNCHANGED <<text, page_boundaries>>

\* `while start < len(text)` holds: the body is entered
ChunkLoopEnter ==
    /\ cpc = "loop"
    /\ start < Len(text)
    /\ cpc' = "body"
    /\ UNCHANGED <<text, page_boundaries, start, chunk_index, chunks,
                   last_end, chunk_end>>

\* the body of one iteration of the loop
ChunkStep ==
    /\ cpc = "body"
    /\ LET end == ChunkEnd(text, start, chunk_size)
           chunk_text == Strip(PySlice(text, start, end))
           emitted == chunk_text # <<>>
           cs == IF emitted
                 THEN Append(chunks, TextChunk(chunk_text, chunk_index,
                                     PageOf(page_boundaries, start), start))
                 ELSE chunks
       IN  /\ chunks' = cs
           /\ chunk_index' = NextIndex(chunk_index, emitted)
           /\ start' = NextStart(end, chunk_overlap, cs)
           /\ last_end' = end
           /\ chunk_end' = IF emitted THEN end ELSE chunk_end
    /\ cpc' = "loop"
    /\ UNCHANGED <<text, page_boundaries>>

\* `while start < len(text)` fails: `return chunks`
ChunkLoopExit ==
    /\ cpc = "loop"
    /\ ~(start < Len(text))
    /\ cpc' = "done"
    /\ UNCHANGED <<text, page_boundaries, start, chunk_index, chunks,
                   last_end, chunk_end>>

----------------------------------------------------------------------------
(* PDFService.extract_text *)

\* full_text and page_boundaries after the pages from page i on
RECURSIVE ExtractFrom(_, _, _, _)
ExtractFrom(i, pages, full_text, pb) ==
    IF i > Len(pages) THEN <<full_text, pb>>
    ELSE LET page_text == pages[i]
             added == full_text \o page_text
             sep == IF page_text # <<>> /\ page_text[Len(page_text)] # "\n"
                    THEN <<"\n">> ELSE <<>>
         IN  ExtractFrom(i + 1, pages, added \o sep,
                         Append(pb, <<i, Len(full_text)>>))

ExtractText(pages) == ExtractFrom(1, pages, <<>>, <<>>)

----------------------------------------------------------------------------
(* routes/documents.py: the status map and the handlers *)

NoDoc == "none"
\* the value of processing_status for a doc id that is not a key of the dict
NoStatus ==
    [status |-> "absent", progress |-> 0, total_pages |-> 0,
     message |-> <<"", "">>]
\* the value of pdf_files for a doc id without a stored file (a stored PDF
\* has at least one page)
NoFile == <<>>
Docs == {"d1", "d2"}

\* str(e) of the exceptions the external services raise
Reasons == {"timeout", "rate limited"}

\* total_pages = None
NoPages == 0

Repeat(c, n) == [i \in 1..n |-> c]

\* length of the long page of PdfContents
LongPageLen == 55

\* the page texts of the PDFs that are uploaded: a page without text, a
\* page of white space, a short page, two pages, a page longer than Window
PdfContents ==
    { << <<>> >>,
      << <<" ">> >>,
      << <<"a", ".">> >>,
      << <<"a">>, <<"a", "\n">> >>,
      << Repeat("a", LongPageLen) >> }

DefaultChunkSize == 512
DefaultChunkOverlap == 100

\* the settings the service runs with: the defaults, and small chunks
Configs == {<<DefaultChunkSize, DefaultChunkOverlap>>, <<4, 0>>}

HappyPath == <<"uploading", "processing", "embedding", "indexed", "ready">>

ProcessingStatus(st, pr, tp, msg) ==
    [status |-> st, progress |-> pr, total_pages |-> tp, message |-> msg]

UploadingStatus ==
    ProcessingStatus("uploading", 0, NoPages, <<"Starting upload...", "">>)

SavedStatus(n) ==
    ProcessingStatus("processing", 10, n,
                     <<"PDF saved. Extracting text from pages: ", ToString(n)>>)

\* ExtractingStatus with a progress below the one written at upload
ExtractingStatus_Lower(n) ==
    ProcessingStatus("processing", 5, n, <<"Extracting text from PDF...", "">>)

ExtractingStatus(n) ==
    ProcessingStatus("processing", 20, n, <<"Extracting text from PDF...", "">>)

ExtractFailedStatus ==
    ProcessingStatus("failed", 0, NoPages,
                     <<"Failed to extract text from PDF", "">>)

EmbeddingStatus(n, k) ==
    ProcessingStatus("embedding", 40, n, <<"Embedding text chunks: ", ToString(k)>>)

\* EmbedFailedStatus with the generic message and the progress left as it was
EmbedFailedStatus_Generic(reason) ==
    ProcessingStatus("failed", 40, NoPages, <<"Failed to generate embeddings", "">>)

EmbedFailedStatus(reason) ==
    ProcessingStatus("failed", 0, NoPages,
                     <<"Failed to generate embeddings: ", reason>>)

\* EmbeddedStatus with the status of the step before
EmbeddedStatus_Processing(n) ==
    ProcessingStatus("processing", 70, n,
                     <<"Embeddings generated. Storing in database...", "">>)

EmbeddedStatus(n) ==
    ProcessingStatus("embedding", 70, n,
                     <<"Embeddings generated. Storing in database...", "">>)

StoringStatus(n) ==
    ProcessingStatus("indexed", 85, n, <<"Storing vectors in database...", "">>)

ReadyStatus(n, k) ==
    ProcessingStatus("ready", 100, n,
                     <<"Successfully indexed text chunks: ", ToString(k)>>)

\* ProcessingFailedStatus that only logs: the record stays as it was
ProcessingFailedStatus_Swallowed(reason) ==
    ProcessingStatus("indexed", 85, NoPages, <<"", "">>)

ProcessingFailedStatus(reason) ==
    ProcessingStatus("failed", 0, NoPages, <<"Processing failed: ", reason>>)

\* `if not chunks` that never holds
NoChunks_Never(cs) == FALSE

\* `if not chunks`
NoChunks(cs) == cs = <<>>

BatchSize == 100

VectorId(d, i) == <<d, "_chunk_", ToString(i)>>

\* the vectors built from chunk_data[i : i + batch_size]
Batch(d, cs, i) ==
    {[id |-> VectorId(d, cs[k].chunk_index), doc_id |-> d,
      chunk_index |-> cs[k].chunk_index, page_num |-> cs[k].page_num] :
        k \in (i + 1)..Min(i + BatchSize, Len(cs))}

\* index.upsert(vectors=batch): a vector replaces the one with its id
Upsert(vs, batch) ==
    {v \in vs : \A w \in batch : w.id # v.id} \cup batch

\* an entry of the call log: the call, how it went, str(e) if it raised
Event(name, outcome, detail) == <<name, outcome, detail>>

ChunkerIdle ==
    /\ text = <<>>
    /\ page_boundaries = <<>>
    /\ start = 0
    /\ chunk_index = 0
    /\ chunks = <<>>
    /\ last_end = 0
    /\ chunk_end = 0
    /\ cpc = "idle"

\* Settings.max_file_size_mb
MaxFileSizeMb == 50

\* `max_size = settings.max_file_size_mb * 1024 * 1024`
MaxSize == MaxFileSizeMb * 1024 * 1024

\* str.lower on the letters of the file names
Lower(c) ==
    CASE c = "P" -> "p"
      [] c = "D" -> "d"
      [] c = "F" -> "f"
      [] OTHER -> c

\* `s.endswith(suffix)`
EndsWith(s, suffix) ==
    /\ Len(s) >= Len(suffix)
    /\ SubSeq(s, Len(s) - Len(suffix) + 1, Len(s)) = suffix

\* the file names of the uploads: none, not a PDF, PDFs
Filenames ==
    { <<>>, <<"a", ".", "t", "x", "t">>, <<"p", "d", "f">>,
      <<"a", ".", "p", "d", "f">>, <<"a", ".", "P", "D", "F">> }

\* the uploaded files: the name and `len(content)`
Files == [filename : Filenames, size : {0, MaxSize, MaxSize + 1}]

NoUploadReply == [code |-> 0, detail |-> ""]

\* the HTTPException the validation of upload_document raises for the file,
\* NoUploadReply if it passes
Validation(file) ==
    IF file.filename = <<>>
    THEN [code |-> 400, detail |-> "No filename provided"]
    ELSE IF ~EndsWith([i \in 1..Len(file.filename) |->
                          Lower(file.filename[i])], <<".", "p", "d", "f">>)
    THEN [code |-> 400, detail |-> "Only PDF files are supported"]
    ELSE IF file.size > MaxSize
    THEN [code |-> 400, detail |-> "File too large. Maximum size is 50MB"]
    ELSE NoUploadReply

\* upload_document that writes the Uploading record before it validates
UploadReject_RecordFirst(file) ==
    /\ cur = NoDoc
    /\ Validation(file) # NoUploadReply
    /\ upload_reply' = Validation(file)
    /\ \E d \in Docs \ used_ids :
           /\ used_ids' = used_ids \cup {d}
           /\ processing_status' =
                  [processing_status EXCEPT ![d] = UploadingStatus]
    /\ UNCHANGED <<qvars, reply, svars, cvars, pdf_files, meta_files,
                   vectors, pc, delpc, run_chunks, run_pages, upsert_i,
                   calls, cur>>

\* upload_document with a file that fails the validation: the
\* HTTPException is raised before anything is written
UploadReject(file) ==
    /\ cur = NoDoc
    /\ Validation(file) # NoUploadReply
    /\ upload_reply' = Validation(file)
    /\ UNCHANGED <<qvars, reply, svars, cvars, processing_status, pdf_files,
                   meta_files, vectors, used_ids, pc, delpc, run_chunks,
                   run_pages, upsert_i, calls, cur>>

\* upload_document up to `await pdf_service.save_pdf(...)`, validation passed
UploadBegin(d) ==
    /\ cur = NoDoc
    /\ d \notin used_ids
    /\ used_ids' = used_ids \cup {d}
    /\ processing_status' = [processing_status EXCEPT ![d] = UploadingStatus]
    /\ pc' = [pc EXCEPT ![d] = "saving"]
    /\ UNCHANGED <<upload_reply, qvars, reply, svars,
                   cvars, pdf_files, meta_files, vectors, delpc,
                   run_chunks, run_pages, upsert_i, calls, cur>>

\* SaveOk that returns without `background_tasks.add_task(...)`
SaveOk_NoTask(d, pages) ==
    /\ cur = NoDoc
    /\ pc[d] = "saving"
    /\ pdf_files' = [pdf_files EXCEPT ![d] = pages]
    /\ meta_files' = [meta_files EXCEPT ![d] = Len(pages)]
    /\ processing_status' =
           [processing_status EXCEPT ![d] = SavedStatus(Len(pages))]
    /\ run_pages' = [run_pages EXCEPT ![d] = Len(pages)]
    /\ pc' = [pc EXCEPT ![d] = "returned"]
    /\ UNCHANGED <<upload_reply, qvars, reply, svars,
                   cvars, vectors, used_ids, delpc, run_chunks,
                   upsert_i, calls, cur>>

\* save_pdf returns: the status is updated and the background task is added
SaveOk(d, pages) ==
    /\ cur = NoDoc
    /\ pc[d] = "saving"
    /\ pdf_files' = [pdf_files EXCEPT ![d] = pages]
    /\ meta_files' = [meta_files EXCEPT ![d] = Len(pages)]
    /\ processing_status' =
           [processing_status EXCEPT ![d] = SavedStatus(Len(pages))]
    /\ run_pages' = [run_pages EXCEPT ![d] = Len(pages)]
    /\ pc' = [pc EXCEPT ![d] = "scheduled"]
    /\ UNCHANGED <<upload_reply, qvars, reply, svars,
                   cvars, vectors, used_ids, delpc, run_chunks,
                   upsert_i, calls, cur>>

\* save_pdf raises, before or after the .pdf file was written: the handler
\* answers 500 and writes nothing more
SaveRaise(d, written, pages) ==
    /\ cur = NoDoc
    /\ pc[d] = "saving"
    /\ pdf_files' = IF written THEN [pdf_files EXCEPT ![d] = pages]
                    ELSE pdf_files
    /\ pc' = [pc EXCEPT ![d] = "upload_failed"]
    /\ UNCHANGED <<upload_reply, qvars, reply, svars,
                   cvars, processing_status, meta_files, vectors,
                   used_ids, delpc, run_chunks, run_pages, upsert_i, calls,
                   cur>>

\* ProcStart that rebinds the dict, `processing_status = {doc_id: ...}`
ProcStart_ReplacesMap(d) ==
    /\ cur = NoDoc
    /\ pc[d] = "scheduled"
    /\ processing_status' =
           [e \in Docs |-> IF e = d THEN ExtractingStatus(run_pages[d])
                                    ELSE NoStatus]
    /\ calls' = [calls EXCEPT ![d] = Append(@, Event("extract", "call", ""))]
    /\ pc' = [pc EXCEPT ![d] = "extracting"]
    /\ UNCHANGED <<upload_reply, qvars, reply, svars,
                   cvars, pdf_files, meta_files, vectors, used_ids,
                   delpc, run_chunks, run_pages, upsert_i, cur>>

\* process_document up to `await pdf_service.extract_and_chunk(doc_id)`
ProcStart(d) ==
    /\ cur = NoDoc
    /\ pc[d] = "scheduled"
    /\ processing_status' =
           [processing_status EXCEPT ![d] = ExtractingStatus(run_pages[d])]
    /\ calls' = [calls EXCEPT ![d] = Append(@, Event("extract", "call", ""))]
    /\ pc' = [pc EXCEPT ![d] = "extracting"]
    /\ UNCHANGED <<upload_reply, qvars, reply, svars,
                   cvars, pdf_files, meta_files, vectors, used_ids,
                   delpc, run_chunks, run_pages, upsert_i, cur>>

\* extract_text returned no text (no file, no text on any page, or fitz
\* raised): extract_and_chunk returns [] and the run fails
ExtractEmpty(d) ==
    /\ cur = NoDoc
    /\ pc[d] = "extracting"
    /\ \/ pdf_files[d] = NoFile
       \/ TRUE      \* fitz raises: extract_text returns "", []
    /\ processing_status' =
           [processing_status EXCEPT ![d] = ExtractFailedStatus]
    /\ calls' = [calls EXCEPT ![d] = Append(@, Event("extract", "empty", ""))]
    /\ pc' = [pc EXCEPT ![d] = "done"]
    /\ UNCHANGED <<upload_reply, qvars, reply, svars,
                   cvars, pdf_files, meta_files, vectors, used_ids,
                   delpc, run_chunks, run_pages, upsert_i, cur>>

\* extract_text returned text: chunk_text is called on it
ExtractReturn(d) ==
    /\ cur = NoDoc
    /\ pc[d] = "extracting"
    /\ pdf_files[d] # NoFile
    /\ ExtractText(pdf_files[d])[1] # <<>>
    /\ text' = ExtractText(pdf_files[d])[1]
    /\ page_boundaries' = ExtractText(pdf_files[d])[2]
    /\ cpc' = "call"
    /\ cur' = d
    /\ calls' = [calls EXCEPT ![d] = Append(@, Event("extract", "text", ""))]
    /\ pc' = [pc EXCEPT ![d] = "chunking"]
    /\ UNCHANGED <<upload_reply, qvars, reply, svars,
                   start, chunk_index, chunks, last_end, chunk_end,
                   processing_status,
                   pdf_files, meta_files, vectors, used_ids, delpc,
                   run_chunks, run_pages, upsert_i>>

\* chunk_text returned: `if not chunks` fails the run, else the status
\* becomes Embedding and embed_texts_batch is awaited
ChunkReturn(d) ==
    /\ cur = d
    /\ pc[d] = "chunking"
    /\ cpc = "done"
    /\ run_chunks' = [run_chunks EXCEPT ![d] = chunks]
    /\ IF NoChunks(chunks)
       THEN /\ processing_status' =
                   [processing_status EXCEPT ![d] = ExtractFailedStatus]
            /\ pc' = [pc EXCEPT ![d] = "done"]
            /\ calls' = calls
       ELSE /\ processing_status' =
                   [processing_status EXCEPT ![d] =
                        EmbeddingStatus(run_pages[d], Len(chunks))]
            /\ pc' = [pc EXCEPT ![d] = "embedding"]
            /\ calls' = [calls EXCEPT ![d] = Append(@, Event("embed", "call", ""))]
    /\ cur' = NoDoc
    /\ text' = <<>>
    /\ page_boundaries' = <<>>
    /\ start' = 0
    /\ chunk_index' = 0
    /\ chunks' = <<>>
    /\ last_end' = 0
    /\ chunk_end' = 0
    /\ cpc' = "idle"
    /\ UNCHANGED <<upload_reply, qvars, reply, svars,
                   pdf_files, meta_files, vectors, used_ids, delpc,
                   run_pages, upsert_i>>

\* EmbedRaise that calls embed_texts_batch once more instead of failing
EmbedRaise_Retries(d, reason) ==
    /\ cur = NoDoc
    /\ pc[d] = "embedding"
    /\ Len(calls[d]) < 6
    /\ calls' = [calls EXCEPT ![d] =
                    Append(Append(@, Event("embed", "raise", reason)),
                           Event("embed", "call", ""))]
    /\ UNCHANGED <<upload_reply, qvars, reply, svars,
                   cvars, processing_status, pdf_files,
                   meta_files, vectors, used_ids, pc, delpc, run_chunks,
                   run_pages, upsert_i, cur>>

\* embed_texts_batch raises: the inner except fails the run
EmbedRaise(d, reason) ==
    /\ cur = NoDoc
    /\ pc[d] = "embedding"
    /\ processing_status' =
           [processing_status EXCEPT ![d] = EmbedFailedStatus(reason)]
    /\ calls' = [calls EXCEPT ![d] = Append(@, Event("embed", "raise", reason))]
    /\ pc' = [pc EXCEPT ![d] = "done"]
    /\ UNCHANGED <<upload_reply, qvars, reply, svars,
                   cvars, pdf_files, meta_files, vectors, used_ids,
                   delpc, run_chunks, run_pages, upsert_i, cur>>

\* embed_texts_batch returns: progress 70 is written
EmbedReturn(d) ==
    /\ cur = NoDoc
    /\ pc[d] = "embedding"
    /\ processing_status' =
           [processing_status EXCEPT ![d] = EmbeddedStatus(run_pages[d])]
    /\ calls' = [calls EXCEPT ![d] = Append(@, Event("embed", "return", ""))]
    /\ pc' = [pc EXCEPT ![d] = "prepare"]
    /\ cur' = d
    /\ UNCHANGED <<upload_reply, qvars, reply, svars,
                   cvars, pdf_files, meta_files, vectors, used_ids,
                   delpc, run_chunks, run_pages, upsert_i>>

\* chunk_data is built, Indexed is written and
\* upsert_chunk_vectors_batch is awaited
StoreBegin(d) ==
    /\ cur = d
    /\ pc[d] = "prepare"
    /\ processing_status' =
           [processing_status EXCEPT ![d] = StoringStatus(run_pages[d])]
    /\ calls' = [calls EXCEPT ![d] = Append(@, Event("upsert", "call", ""))]
    /\ upsert_i' = [upsert_i EXCEPT ![d] = 0]
    /\ pc' = [pc EXCEPT ![d] = "upserting"]
    /\ cur' = NoDoc
    /\ UNCHANGED <<upload_reply, qvars, reply, svars,
                   cvars, pdf_files, meta_files, vectors, used_ids,
                   delpc, run_chunks, run_pages>>

\* a batch step that writes nothing to the index
UpsertBatch_DropsBatch(d) ==
    /\ cur = NoDoc
    /\ pc[d] = "upserting"
    /\ upsert_i[d] < Len(run_chunks[d])
    /\ upsert_i' = [upsert_i EXCEPT ![d] = @ + BatchSize]
    /\ UNCHANGED <<upload_reply, qvars, reply, svars,
                   cvars, processing_status, pdf_files, meta_files, vectors,
                   used_ids, pc, delpc, run_chunks, run_pages, calls, cur>>

\* one `index.upsert(vectors=batch)` of upsert_chunk_vectors_batch
UpsertBatch(d) ==
    /\ cur = NoDoc
    /\ pc[d] = "upserting"
    /\ upsert_i[d] < Len(run_chunks[d])
    /\ vectors' = Upsert(vectors, Batch(d, run_chunks[d], upsert_i[d]))
    /\ upsert_i' = [upsert_i EXCEPT ![d] = @ + BatchSize]
    /\ UNCHANGED <<upload_reply, qvars, reply, svars,
                   cvars, processing_status, pdf_files, meta_files,
                   used_ids, pc, delpc, run_chunks, run_pages, calls, cur>>

\* _get_index or an index.upsert raises: upsert_chunk_vectors_batch
\* re-raises and the outer except of process_document fails the run
UpsertRaise(d, reason) ==
    /\ cur = NoDoc
    /\ pc[d] = "upserting"
    /\ upsert_i[d] < Len(run_chunks[d])
    /\ processing_status' =
           [processing_status EXCEPT ![d] = ProcessingFailedStatus(reason)]
    /\ calls' = [calls EXCEPT ![d] = Append(@, Event("upsert", "raise", reason))]
    /\ pc' = [pc EXCEPT ![d] = "done"]
    /\ UNCHANGED <<upload_reply, qvars, reply, svars,
                   cvars, pdf_files, meta_files, vectors, used_ids,
                   delpc, run_chunks, run_pages, upsert_i, cur>>

\* Ready written while batches are still to be upserted
UpsertReturn_Early(d) ==
    /\ cur = NoDoc
    /\ pc[d] = "upserting"
    /\ processing_status' =
           [processing_status EXCEPT ![d] =
                ReadyStatus(run_pages[d], Len(run_chunks[d]))]
    /\ calls' = [calls EXCEPT ![d] = Append(@, Event("upsert", "return", ""))]
    /\ pc' = [pc EXCEPT ![d] = "done"]
    /\ UNCHANGED <<upload_reply, qvars, reply, svars,
                   cvars, pdf_files, meta_files, vectors, used_ids,
                   delpc, run_chunks, run_pages, upsert_i, cur>>

\* upsert_chunk_vectors_batch returns: Ready is written
UpsertReturn(d) ==
    /\ cur = NoDoc
    /\ pc[d] = "upserting"
    /\ ~(upsert_i[d] < Len(run_chunks[d]))
    /\ processing_status' =
           [processing_status EXCEPT ![d] =
                ReadyStatus(run_pages[d], Len(run_chunks[d]))]
    /\ calls' = [calls EXCEPT ![d] = Append(@, Event("upsert", "return", ""))]
    /\ pc' = [pc EXCEPT ![d] = "done"]
    /\ UNCHANGED <<upload_reply, qvars, reply, svars,
                   cvars, pdf_files, meta_files, vectors, used_ids,
                   delpc, run_chunks, run_pages, upsert_i, cur>>

\* delete_document up to `await vector_store.delete_document_vectors(doc_id)`
DeleteBegin(d) ==
    /\ cur = NoDoc
    /\ delpc[d] # "vectors"
    /\ d \in used_ids
    /\ delpc' = [delpc EXCEPT ![d] = "vectors"]
    /\ UNCHANGED <<upload_reply, qvars, reply, svars,
                   cvars, processing_status, pdf_files, meta_files,
                   vectors, used_ids, pc, run_chunks, run_pages, upsert_i,
                   calls, cur>>

\* delete_document_vectors raises: the handler answers 500
DeleteVectorsRaise(d) ==
    /\ cur = NoDoc
    /\ delpc[d] = "vectors"
    /\ delpc' = [delpc EXCEPT ![d] = "500"]
    /\ UNCHANGED <<upload_reply, qvars, reply, svars,
                   cvars, processing_status, pdf_files, meta_files,
                   vectors, used_ids, pc, run_chunks, run_pages, upsert_i,
                   calls, cur>>

\* delete_document_vectors returns: the files and the status record go
DeleteFinish(d) ==
    /\ cur = NoDoc
    /\ delpc[d] = "vectors"
    /\ vectors' = {v \in vectors : v.doc_id # d}
    /\ pdf_files' = [pdf_files EXCEPT ![d] = NoFile]
    /\ meta_files' = [meta_files EXCEPT ![d] = NoPages]
    /\ processing_status' = [processing_status EXCEPT ![d] = NoStatus]
    /\ delpc' = [delpc EXCEPT ![d] = "200"]
    /\ UNCHANGED <<upload_reply, qvars, reply, svars,
                   cvars, used_ids, pc, run_chunks, run_pages,
                   upsert_i, calls, cur>>

\* delete_document_vectors returns and an unlink of
\* pdf_service.delete_document raises, that of the .pdf file or, the .pdf
\* file removed, that of the .meta file: pdf_service.delete_document
\* returns False, the status record goes and the handler answers 404
DeleteUnlinkRaise(d, pdf_removed) ==
    /\ cur = NoDoc
    /\ delpc[d] = "vectors"
    /\ IF pdf_removed THEN meta_files[d] # NoPages ELSE pdf_files[d] # NoFile
    /\ vectors' = {v \in vectors : v.doc_id # d}
    /\ pdf_files' = IF pdf_removed THEN [pdf_files EXCEPT ![d] = NoFile]
                    ELSE pdf_files
    /\ processing_status' = [processing_status EXCEPT ![d] = NoStatus]
    /\ delpc' = [delpc EXCEPT ![d] = "404"]
    /\ UNCHANGED <<upload_reply, qvars, reply, svars,
                   cvars, meta_files, used_ids, pc, run_chunks, run_pages,
                   upsert_i, calls, cur>>

\* `return ProcessingStatus(..., status=READY, progress=100, ...)`
ReadyReply(n) ==
    ProcessingStatus("ready", 100, n, <<"Document is ready", "">>)

\* no answer yet
NoReply == [doc_id |-> NoDoc, code |-> 0, body |-> NoStatus]

\* StatusResponse without the look into the upload directory
StatusResponse_NoFallback(d, record, page_count) ==
    IF record = NoStatus
    THEN [doc_id |-> d, code |-> 404, body |-> NoStatus]
    ELSE [doc_id |-> d, code |-> 200, body |-> record]

\* the answer of get_processing_status(d), from the entry of the status
\* dict for d and the page count in the metadata file of d
StatusResponse(d, record, page_count) ==
    IF record = NoStatus
    THEN IF page_count # NoPages
         THEN [doc_id |-> d, code |-> 200, body |-> ReadyReply(page_count)]
         ELSE [doc_id |-> d, code |-> 404, body |-> NoStatus]
    ELSE [doc_id |-> d, code |-> 200, body |-> record]

\* GET /documents/status/{doc_id}
GetProcessingStatus(d) ==
    /\ cur = NoDoc
    /\ reply' = StatusResponse(d, processing_status[d], meta_files[d])
    /\ UNCHANGED <<upload_reply, qvars, svars, cvars, processing_status,
                   pdf_files, meta_files, vectors, used_ids, pc, delpc, run_chunks, run_pages,
                   upsert_i, calls, cur>>

----------------------------------------------------------------------------
(* routes/chat.py and RAGService.process_query *)

\* ChatRequest.top_k: `Field(default=5, ge=1, le=20)`
DefaultTopK == 5

TopKs == {1, DefaultTopK}

Queries == {"q"}

\* ChatRequest.doc_ids: None, or a list of doc ids (the empty list included)
NoDocIds == [given |-> FALSE, ids |-> {}]

DocIdLists == {NoDocIds} \cup {[given |-> TRUE, ids |-> I] : I \in SUBSET Docs}

NoRequest == [query |-> "", top_k |-> DefaultTopK, doc_ids |-> NoDocIds]

NoResponse == [code |-> 0, answer |-> <<"", "">>, sources |-> {}, query |-> ""]

\* `raise HTTPException(status_code=500, detail=f"Chat failed: {str(e)}")`
ChatFailed(reason) ==
    [code |-> 500, answer |-> <<"Chat failed: ", reason>>, sources |-> {},
     query |-> ""]

\* `return ChatResponse(answer=..., sources=..., query=...)`
ChatResponse(answer, sources, query) ==
    [code |-> 200, answer |-> answer, sources |-> sources, query |-> query]

NoInfoAnswer ==
    <<"I couldn't find any relevant information in the uploaded documents.",
      "">>

\* the text the generation call returns
Generated == <<"generated", "">>

\* `return f"I encountered an error while analyzing the documents: {str(e)}"`
ErrorAnswer(reason) ==
    <<"I encountered an error while analyzing the documents: ", reason>>

\* `if doc_ids:` of similarity_search: a filter is built
Filtered(ids) == ids.given /\ ids.ids # {}

\* the vectors index.query may return: those that pass the filter, if any
Candidates(ids) ==
    IF Filtered(ids) THEN {v \in vectors : v.doc_id \in ids.ids} ELSE vectors

\* the results index.query can return: top_k of the candidates
QueryResults(ids, k) ==
    {M \in SUBSET Candidates(ids) :
        Cardinality(M) = Min(k, Cardinality(Candidates(ids)))}

\* the sources built from the matches
Sources(ms) ==
    {[doc_id |-> m.doc_id, page_num |-> m.page_num,
      chunk_index |-> m.chunk_index] : m \in ms}

\* `if not matches` that never holds
NoMatches_Never(ms) == FALSE

\* `if not matches`
NoMatches(ms) == ms = {}

ChatIdle ==
    /\ request = NoRequest
    /\ qpc = "idle"
    /\ matches = {}
    /\ qcalls = <<>>
    /\ response = NoResponse

\* chat_with_documents and process_query up to `await embed_query(query)`
ChatBegin(q, k, ids) ==
    /\ cur = NoDoc
    /\ qpc \in {"idle", "done"}
    /\ request' = [query |-> q, top_k |-> k, doc_ids |-> ids]
    /\ qpc' = "embedding"
    /\ matches' = {}
    /\ qcalls' = <<Event("embed_query", "call", "")>>
    /\ response' = NoResponse
    /\ UNCHANGED <<upload_reply, svars, cvars, processing_status, pdf_files,
                   meta_files, vectors, used_ids, pc, delpc, run_chunks, run_pages,
                   upsert_i, calls, cur, reply>>

\* embed_query raises: process_query logs and re-raises, and
\* chat_with_documents answers 500
EmbedQueryRaise(reason) ==
    /\ cur = NoDoc
    /\ qpc = "embedding"
    /\ qcalls' = Append(qcalls, Event("embed_query", "raise", reason))
    /\ response' = ChatFailed(reason)
    /\ qpc' = "done"
    /\ UNCHANGED <<upload_reply, svars, cvars, processing_status, pdf_files,
                   meta_files, vectors, used_ids, pc, delpc, run_chunks, run_pages,
                   upsert_i, calls, cur, reply, request, matches>>

\* embed_query returns: similarity_search is awaited
EmbedQueryReturn ==
    /\ cur = NoDoc
    /\ qpc = "embedding"
    /\ qcalls' = Append(Append(qcalls, Event("embed_query", "return", "")),
                        Event("search", "call", ""))
    /\ qpc' = "searching"
    /\ UNCHANGED <<upload_reply, svars, cvars, processing_status, pdf_files,
                   meta_files, vectors, used_ids, pc, delpc, run_chunks, run_pages,
                   upsert_i, calls, cur, reply, request, matches, response>>

\* similarity_search raises (_get_index or index.query): re-raised up to
\* chat_with_documents, which answers 500
SearchRaise(reason) ==
    /\ cur = NoDoc
    /\ qpc = "searching"
    /\ qcalls' = Append(qcalls, Event("search", "raise", reason))
    /\ response' = ChatFailed(reason)
    /\ qpc' = "done"
    /\ UNCHANGED <<upload_reply, svars, cvars, processing_status, pdf_files,
                   meta_files, vectors, used_ids, pc, delpc, run_chunks, run_pages,
                   upsert_i, calls, cur, reply, request, matches>>

\* similarity_search returns: without matches the fixed answer is
\* returned, else _generate_answer is awaited
SearchReturn ==
    /\ cur = NoDoc
    /\ qpc = "searching"
    /\ \E M \in QueryResults(request.doc_ids, request.top_k) :
           /\ matches' = M
           /\ IF NoMatches(M)
              THEN /\ response' = ChatResponse(NoInfoAnswer, {}, request.query)
                   /\ qpc' = "done"
                   /\ qcalls' = Append(qcalls, Event("search", "return", ""))
              ELSE /\ response' = response
                   /\ qpc' = "generating"
                   /\ qcalls' =
                          Append(Append(qcalls, Event("search", "return", "")),
                                 Event("generate", "call", ""))
    /\ UNCHANGED <<upload_reply, svars, cvars, processing_status, pdf_files,
                   meta_files, vectors, used_ids, pc, delpc, run_chunks, run_pages,
                   upsert_i, calls, cur, reply, request>>

\* _call_gemini_api returns: the answer and the sources are returned
GenerateReturn ==
    /\ cur = NoDoc
    /\ qpc = "generating"
    /\ qcalls' = Append(qcalls, Event("generate", "return", ""))
    /\ response' = ChatResponse(Generated, Sources(matches), request.query)
    /\ qpc' = "done"
    /\ UNCHANGED <<upload_reply, svars, cvars, processing_status, pdf_files,
                   meta_files, vectors, used_ids, pc, delpc, run_chunks, run_pages,
                   upsert_i, calls, cur, reply, request, matches>>

\* _call_gemini_api raises: _generate_answer catches the exception and
\* returns its text as the answer
GenerateRaise(reason) ==
    /\ cur = NoDoc
    /\ qpc = "generating"
    /\ qcalls' = Append(qcalls, Event("generate", "raise", reason))
    /\ response' =
           ChatResponse(ErrorAnswer(reason), Sources(matches), request.query)
    /\ qpc' = "done"
    /\ UNCHANGED <<upload_reply, svars, cvars, processing_status, pdf_files,
                   meta_files, vectors, used_ids, pc, delpc, run_chunks, run_pages,
                   upsert_i, calls, cur, reply, request, matches>>

----------------------------------------------------------------------------
\* the positions of a scheduled or running process_document
InFlight == {"scheduled", "extracting", "chunking", "embedding", "prepare",
             "upserting"}

\* the process is stopped and started again: the module is loaded anew with
\* `processing_status = {}`, every coroutine and its locals are gone, the
\* upload directory and the vector index are as they were
Restart ==
    /\ processing_status' = [d \in Docs |-> NoStatus]
    /\ pc' = [d \in Docs |-> IF pc[d] \in InFlight THEN "orphaned"
                              ELSE IF pc[d] = "saving" THEN "aborted"
                              ELSE pc[d]]
    /\ delpc' = [d \in Docs |-> IF delpc[d] = "vectors" THEN "aborted"
                                 ELSE delpc[d]]
    /\ run_chunks' = [d \in Docs |-> <<>>]
    /\ run_pages' = [d \in Docs |-> NoPages]
    /\ upsert_i' = [d \in Docs |-> 0]
    /\ cur' = NoDoc
    /\ reply' = NoReply
    /\ upload_reply' = NoUploadReply
    /\ request' = NoRequest
    /\ qpc' = "idle"
    /\ matches' = {}
    /\ qcalls' = <<>>
    /\ response' = NoResponse
    /\ text' = <<>>
    /\ page_boundaries' = <<>>
    /\ start' = 0
    /\ chunk_index' = 0
    /\ chunks' = <<>>
    /\ last_end' = 0
    /\ chunk_end' = 0
    /\ cpc' = "idle"
    /\ UNCHANGED <<svars, pdf_files, meta_files, vectors, used_ids, calls>>

OrchIdle ==
    /\ processing_status = [d \in Docs |-> NoStatus]
    /\ pdf_files = [d \in Docs |-> NoFile]
    /\ meta_files = [d \in Docs |-> NoPages]
    /\ vectors = {}
    /\ used_ids = {}
    /\ pc = [d \in Docs |-> "none"]
    /\ delpc = [d \in Docs |-> "none"]
    /\ run_chunks = [d \in Docs |-> <<>>]
    /\ run_pages = [d \in Docs |-> NoPages]
    /\ upsert_i = [d \in Docs |-> 0]
    /\ calls = [d \in Docs |-> <<>>]
    /\ cur = NoDoc
    /\ reply = NoReply
    /\ upload_reply = NoUploadReply
    /\ ChatIdle

Init ==
    /\ \E cfg \in Configs : chunk_size = cfg[1] /\ chunk_overlap = cfg[2]
    /\ ChunkerIdle
    /\ OrchIdle

\* the steps of chunk_text, run by the coroutine that called it
ChunkTextStep ==
    \/ ChunkTextCall /\ UNCHANGED <<svars, ovars>>
    \/ ChunkLoopEnter /\ UNCHANGED <<svars, ovars>>
    \/ ChunkStep /\ UNCHANGED <<svars, ovars>>
    \/ ChunkLoopExit /\ UNCHANGED <<svars, ovars>>

\* the steps of a started process_document
RunStep(d) ==
    \/ ExtractEmpty(d)
    \/ ExtractReturn(d)
    \/ ChunkReturn(d)
    \/ \E reason \in Reasons : EmbedRaise(d, reason)
    \/ EmbedReturn(d)
    \/ StoreBegin(d)
    \/ UpsertBatch(d)
    \/ \E reason \in Reasons : UpsertRaise(d, reason)
    \/ UpsertReturn(d)

\* the requests and the task steps for the doc ids of D and the PDFs of C
NextOf(D, C) ==
    \/ \E d \in D : UploadBegin(d)
    \/ \E d \in D, pages \in C : SaveOk(d, pages)
    \/ \E d \in D, written \in BOOLEAN, pages \in C :
           SaveRaise(d, written, pages)
    \/ \E d \in D : ProcStart(d)
    \/ \E d \in D : RunStep(d)
    \/ ChunkTextStep
    \/ \E d \in D : DeleteBegin(d)
    \/ \E d \in D : DeleteVectorsRaise(d)
    \/ \E d \in D : DeleteFinish(d)

Next == NextOf(Docs, PdfContents)

Spec == Init /\ [][Next]_vars

\* the doc ids and the PDFs of the progress check
LiveDocs == {"d1"}

LiveContents == {pages \in PdfContents : Len(pages[1]) < Window}

NextLive == NextOf(LiveDocs, LiveContents)

\* a scheduled task is started, sequential code runs on, and every awaited
\* external call returns or raises
SpecFair ==
    /\ Init
    /\ [][NextLive]_vars
    /\ WF_vars(ChunkTextStep)
    /\ \A d \in LiveDocs : WF_vars(ProcStart(d)) /\ WF_vars(RunStep(d))

\* one document with status polls and restarts of the process
NextPoll ==
    \/ NextLive
    \/ \E d \in LiveDocs : GetProcessingStatus(d)
    \/ Restart

SpecPoll == Init /\ [][NextPoll]_vars

\* one document being ingested and deleted while chat requests are served
ChatStep ==
    \/ \E q \in Queries, k \in TopKs, ids \in DocIdLists : ChatBegin(q, k, ids)
    \/ \E reason \in Reasons : EmbedQueryRaise(reason)
    \/ EmbedQueryReturn
    \/ \E reason \in Reasons : SearchRaise(reason)
    \/ SearchReturn
    \/ GenerateReturn
    \/ \E reason \in Reasons : GenerateRaise(reason)

NextChat ==
    \/ NextLive
    \/ ChatStep

SpecChat == Init /\ [][NextChat]_vars

\* the PDFs of LiveContents on which chunk_text returns
SaveContents == LiveContents \ { << <<" ">> >> }

NextSave == NextOf(LiveDocs, SaveContents)

\* as SpecFair, and save_pdf returns or raises
SpecSaveFair ==
    /\ Init
    /\ [][NextSave]_vars
    /\ WF_vars(ChunkTextStep)
    /\ \A d \in LiveDocs :
           /\ WF_vars(ProcStart(d))
           /\ WF_vars(RunStep(d))
           /\ WF_vars(\E pages \in SaveContents :
                         \/ SaveOk(d, pages)
                         \/ \E written \in BOOLEAN :
                                SaveRaise(d, written, pages))

\* one document, and uploads that fail the validation
NextUpload ==
    \/ NextLive
    \/ \E file \in Files : UploadReject(file)

SpecUpload == Init /\ [][NextUpload]_vars

\* one document, with deletes whose unlink of a file can fail
NextDelete ==
    \/ NextLive
    \/ \E d \in LiveDocs, pdf_removed \in BOOLEAN :
           DeleteUnlinkRaise(d, pdf_removed)

SpecDelete == Init /\ [][NextDelete]_vars

\* length of the page of BatchContents: with chunks of 4 characters it is
\* cut into more than BatchSize chunks
BatchPageLen == 460

\* one document whose PDF is a page without text or one long page
BatchContents == { << <<>> >>, << Repeat("a", BatchPageLen) >> }

NextBatch == NextOf(LiveDocs, BatchContents)

SpecBatch == Init /\ [][NextBatch]_vars

\* one document whose PDF is any list of up to MaxPages short pages
MaxPages == 3

PageTexts == {<<>>, <<" ">>, <<"a">>, <<"a", "\n">>}

PageLists == UNION {[1..n -> PageTexts] : n \in 1..MaxPages}

NextPages == NextOf(LiveDocs, PageLists)

SpecPages == Init /\ [][NextPages]_vars

----------------------------------------------------------------------------
(* chunk_text on its own: every text, with the overlaps up to chunk_size *)

\* page tables for a text: none, one page, two pages split at k
PageTables(t) ==
    {<<>>, << <<1, 0>> >>}
    \cup {<< <<1, 0>>, <<2, k>> >> : k \in {Len(t) \div 2} \ {0}}

InitChunk ==
    /\ chunk_size \in 1..MaxChunkSize
    /\ chunk_overlap \in 0..chunk_size
    /\ text \in Texts
    /\ page_boundaries \in PageTables(text)
    /\ start = 0
    /\ chunk_index = 0
    /\ chunks = <<>>
    /\ last_end = 0
    /\ chunk_end = 0
    /\ cpc = "call"
    /\ OrchIdle

NextChunk == ChunkTextStep

SpecChunk == InitChunk /\ [][NextChunk]_vars

\* the texts and configurations of the termination check
LiveMaxLen == 2
LiveMaxChunkSize == 2

InitChunkLive ==
    /\ InitChunk
    /\ Len(text) <= LiveMaxLen
    /\ chunk_size <= LiveMaxChunkSize
    /\ chunk_overlap < chunk_size
    /\ page_boundaries = <<>>

\* the loop is sequential code: an enabled step is taken
SpecChunkFair == InitChunkLive /\ [][NextChunk]_vars /\ WF_vars(NextChunk)

\* longer texts of letters and line breaks, cut with overlap < chunk_size
WideMaxLen == 6
WideMaxChunkSize == 5

WideAlphabet == {"a", "\n"}

InitChunkWide ==
    /\ chunk_size \in 1..WideMaxChunkSize
    /\ chunk_overlap \in 0..(chunk_size - 1)
    /\ text \in UNION {[1..n -> WideAlphabet] : n \in 0..WideMaxLen}
    /\ page_boundaries = <<>>
    /\ start = 0
    /\ chunk_index = 0
    /\ chunks = <<>>
    /\ last_end = 0
    /\ chunk_end = 0
    /\ cpc = "call"
    /\ OrchIdle

SpecChunkWide == InitChunkWide /\ [][NextChunk]_vars

\* texts with one separator after a run of letters as long as the window,
\* cut with overlap < chunk_size
LongMaxRun == 54
LongMaxTail == 2
LongMaxChunkSize == 3

LongTexts ==
    {Repeat("a", i) \o sep \o Repeat("a", j) :
        i \in 0..LongMaxRun, j \in 0..LongMaxTail,
        sep \in {<<"\n">>, <<".", " ">>}}

InitChunkLong ==
    /\ chunk_size \in 1..LongMaxChunkSize
    /\ chunk_overlap \in 0..(chunk_size - 1)
    /\ text \in LongTexts
    /\ page_boundaries = <<>>
    /\ start = 0
    /\ chunk_index = 0
    /\ chunks = <<>>
    /\ last_end = 0
    /\ chunk_end = 0
    /\ cpc = "call"
    /\ OrchIdle

SpecChunkLong == InitChunkLong /\ [][NextChunk]_vars


----------------------------------------------------------------------------
(* Claims about chunk_text, checked under SpecChunk / SpecChunkFair *)

ValidConfig == chunk_overlap < chunk_size

\* C1: for every text and every configuration with overlap < chunk_size the
\* chunking loop terminates: the cursor reaches len(text) and the call
\* returns.
C1_ChunkTextTerminates == (cpc = "call" /\ ValidConfig) ~> (cpc = "done")

\* C2: with overlap >= chunk_size chunk_text fails before any text is
\* processed: no cursor step is taken and no chunk is emitted.
C2_InvalidConfigFailsFast ==
    chunk_overlap >= chunk_size => (chunks = <<>> /\ start = 0)

\* C8: start_char is strictly increasing from each chunk to the next, for
\* every text and every configuration with overlap < chunk_size.
C8_StartCharIncreasing ==
    ValidConfig =>
        \A i \in 1..(Len(chunks) - 1) :
            chunks[i].start_char < chunks[i + 1].start_char

\* a returned list of three chunks produced with a positive overlap
C8_Witness ==
    /\ cpc = "done"
    /\ ValidConfig
    /\ chunk_overlap > 0
    /\ Len(chunks) >= 3

\* C9: every emitted chunk's start_char is an offset into the text,
\* 0 <= start_char < len(text), for every configuration with
\* overlap < chunk_size, also when earlier iterations emitted nothing.
C9_StartCharInText ==
    ValidConfig =>
        \A i \in 1..Len(chunks) :
            0 <= chunks[i].start_char /\ chunks[i].start_char < Len(text)

\* C10: the returned chunks carry chunk_index 0, 1, ..., N-1 in order, also
\* when an iteration's slice was whitespace only and emitted nothing.
C10_ChunkIndexDense ==
    /\ \A i \in 1..Len(chunks) : chunks[i].chunk_index = i - 1
    /\ cpc \in {"loop", "body", "done"} => chunk_index = Len(chunks)

\* "a a" cut into single characters: the iteration at cursor 1 emits nothing
C10_Witness ==
    /\ cpc = "done"
    /\ text = <<"a", " ", "a">>
    /\ chunk_size = 1
    /\ chunk_overlap = 0
    /\ Len(chunks) = 2
    /\ chunks[2].start_char = 2

----------------------------------------------------------------------------
(* Claims about the processing state machine, checked under Spec / SpecFair *)

Last(q) == q[Len(q)]

IsNextState(a, b) ==
    \E i \in 1..(Len(HappyPath) - 1) : HappyPath[i] = a /\ HappyPath[i + 1] = b

\* a change of an existing status record; a record being created or being
\* removed by delete_document is no change of its state
LegalChange(old, new) ==
    \/ old.status = "absent"
    \/ new.status = "absent"
    \/ /\ old.status \in {"ready", "failed"}
       /\ new = old
    \/ /\ old.status \notin {"ready", "failed"}
       /\ \/ new.status = old.status
          \/ IsNextState(old.status, new.status)
          \/ /\ old.status \in {"processing", "embedding", "indexed"}
             /\ new.status = "failed"

\* C3: every change of a document's status keeps the state, moves to the
\* next state of Uploading -> Processing -> Embedding -> Indexed -> Ready, or
\* moves from Processing, Embedding or Indexed to Failed; a Ready or Failed
\* record is never written again.
C3_LegalTransitions ==
    [][\A d \in Docs :
          LegalChange(processing_status[d], processing_status'[d])]_vars

\* one document went all the way to Ready, the other failed while Embedding
C3_Witness ==
    /\ processing_status["d1"].status = "ready"
    /\ processing_status["d2"].status = "failed"
    /\ Last(calls["d2"])[1] = "embed"

\* C4: every started process_document eventually sets the status of its
\* document to Ready or to Failed, every external call returning or raising.
C4_RunReachesTerminal ==
    \A d \in LiveDocs :
        (pc[d] = "extracting") ~>
            (processing_status[d].status \in {"ready", "failed"})

Raised(q, name) == \E i \in 1..Len(q) : q[i][1] = name /\ q[i][2] = "raise"

Called(q, name) == \E i \in 1..Len(q) : q[i][1] = name /\ q[i][2] = "call"

JustLogged(d, name, outcome) ==
    /\ calls'[d] # calls[d]
    /\ Last(calls'[d])[1] = name
    /\ Last(calls'[d])[2] = outcome

\* C5: when the batch embedding call raises, the status becomes Failed with
\* progress 0 and a message that contains the failure reason, and the vector
\* upsert is never invoked for that document in that run.
C5_EmbeddingFailure ==
    [][\A d \in Docs :
          /\ JustLogged(d, "embed", "raise") =>
                 /\ processing_status'[d].status = "failed"
                 /\ processing_status'[d].progress = 0
                 /\ processing_status'[d].message[2] = Last(calls'[d])[3]
          /\ Raised(calls[d], "embed") =>
                 /\ ~Called(calls'[d], "upsert")
                 /\ \A v \in vectors' : v.doc_id # d]_vars

\* the run of d1 ended in a raising embedding call
C5_Witness ==
    /\ pc["d1"] = "done"
    /\ Raised(calls["d1"], "embed")
    /\ processing_status["d1"].status = "failed"

Failed(q) ==
    \E i \in 1..Len(q) : q[i][2] \in {"raise", "empty"}

\* C6: every failure inside process_document, a failing upsert included,
\* is turned into a Failed status with a non-empty message; the status is
\* not left non-terminal and no pipeline step follows the failed one.
C6_FailuresBecomeFailed ==
    [][\A d \in Docs :
          /\ (calls'[d] # calls[d] /\ Failed(calls'[d])) =>
                 /\ processing_status'[d].status = "failed"
                 /\ processing_status'[d].message[1] # ""
                 /\ pc'[d] = "done"
          /\ Failed(calls[d]) =>
                 /\ calls'[d] = calls[d]
                 /\ pc'[d] = "done"
                 /\ processing_status'[d].status \in {"failed", "absent"}]_vars

\* the upsert of d1 raised after the embedding had returned
C6_Witness ==
    /\ Raised(calls["d1"], "upsert")
    /\ processing_status["d1"].status = "failed"
    /\ processing_status["d1"].message[1] = "Processing failed: "

\* the run of d got past extract_and_chunk
PastChunking(d) == pc[d] \in {"embedding", "prepare", "upserting", "done"}

\* C7: when extraction yields no text or chunking yields no chunk, the run
\* sets Failed with a message and stops: neither the embedding call nor the
\* upsert is made, and the status never becomes Embedding, Indexed or Ready.
C7_NoChunksFails ==
    \A d \in Docs :
        (PastChunking(d) /\ run_chunks[d] = <<>>) =>
            /\ pc[d] = "done"
            /\ ~Called(calls[d], "embed")
            /\ ~Called(calls[d], "upsert")
            /\ processing_status[d].status \in {"failed", "absent"}
            /\ processing_status[d].status = "failed" =>
                   processing_status[d].message[1] # ""

\* chunk_text returned no chunk for the text extracted from d1
C7_Witness ==
    /\ pc["d1"] = "done"
    /\ Last(calls["d1"])[2] = "text"
    /\ processing_status["d1"].status = "failed"

----------------------------------------------------------------------------
(* More claims about chunk_text, checked under SpecChunk / SpecChunkWide *)

\* the page that owns offset o in the page table pb: the page of the last
\* entry whose offset is <= o, page 1 for the empty table, and no page (0)
\* when the table has entries and none of them starts at or before o
PageOwner(pb, o) ==
    LET I == {i \in 1..Len(pb) : pb[i][2] <= o}
    IN  IF pb = <<>> THEN 1
        ELSE IF I = {} THEN 0
        ELSE pb[CHOOSE i \in I : \A j \in I : j <= i][1]

\* C11: every chunk's page_num is the page owning its start_char in the
\* page table: the page of the last entry whose offset is <= start_char, and
\* page 1 when the table is empty, for every configuration with
\* overlap < chunk_size.
C11_PageOwnsStart ==
    ValidConfig =>
        \A i \in 1..Len(chunks) :
            chunks[i].page_num =
                PageOwner(page_boundaries, chunks[i].start_char)

\* t occurs in the text at offset lo
OccursAt(t, lo) ==
    /\ lo >= 0
    /\ lo + Len(t) <= Len(text)
    /\ SubSeq(text, lo + 1, lo + Len(t)) = t

SpanOf(c) ==
    {p \in 0..(Len(text) - 1) :
        c.start_char <= p /\ p < ChunkEnd(text, c.start_char, chunk_size)}

\* C13: chunking is lossless: for every text and every configuration with
\* overlap < chunk_size, every offset of the text that holds a character
\* other than white space lies in the span of at least one returned chunk.
C13_Lossless ==
    (cpc = "done" /\ ValidConfig) =>
        \A p \in 0..(Len(text) - 1) :
            text[p + 1] \notin Whitespace =>
                \E i \in 1..Len(chunks) : p \in SpanOf(chunks[i])

\* C14: chunk_text on the empty text returns the empty list at once, for
\* any page table: no iteration of the loop runs and nothing is raised.
C14_EmptyTextNoChunks ==
    text = <<>> => (cpc \in {"call", "done"} /\ chunks = <<>>)

\* chunk_text returned for the empty text and a page table with an entry
C14_Witness ==
    /\ text = <<>>
    /\ page_boundaries # <<>>
    /\ cpc = "done"

----------------------------------------------------------------------------
(* More claims about the processing state machine, checked under Spec *)

\* C15: the progress of a document's status stays within 0..100 and never
\* decreases from one write to the next when the state is unchanged or
\* advances along the happy path.
C15_ProgressMonotone ==
    [][\A d \in Docs :
          LET old == processing_status[d]
              new == processing_status'[d]
          IN  /\ new.progress >= 0
              /\ new.progress <= 100
              /\ (/\ old.status # "absent"
                  /\ new.status # "absent"
                  /\ \/ new.status = old.status
                     \/ IsNextState(old.status, new.status)) =>
                     new.progress >= old.progress]_vars

\* one document is Ready, the other has its embeddings and is not stored yet
C15_Witness ==
    /\ processing_status["d1"].status = "ready"
    /\ processing_status["d1"].progress = 100
    /\ processing_status["d2"].status = "embedding"
    /\ processing_status["d2"].progress = 70

\* C18: once delete_document(d) has completed, no status record for d
\* exists, in particular for a document whose process_document has been
\* started, before the delete or after it.
C18_DeletedHasNoStatus ==
    \A d \in Docs :
        (delpc[d] = "200" /\ Called(calls[d], "extract")) =>
            processing_status[d] = NoStatus

\* the upload of d returns to its caller in this step
UploadReturns(d) ==
    pc[d] = "saving" /\ pc'[d] \notin {"saving", "upload_failed"}

\* C19: when upload_document returns successfully the file is stored, the
\* status is Processing and one process_document task is scheduled for the
\* fresh doc id; no doc id ever has a second run.
C19_OneRunPerUpload ==
    [][\A d \in Docs :
          /\ (pc[d] = "none" /\ pc'[d] # "none") => d \notin used_ids
          /\ UploadReturns(d) =>
                 /\ pdf_files'[d] # NoFile
                 /\ meta_files'[d] # NoPages
                 /\ processing_status'[d].status = "processing"
                 /\ pc'[d] = "scheduled"
                 /\ ~Called(calls'[d], "extract")
          /\ JustLogged(d, "extract", "call") =>
                 /\ pc[d] = "scheduled"
                 /\ ~Called(calls[d], "extract")]_vars

\* the upload of d1 has returned and its task waits; the run of d2 is over
C19_Witness ==
    /\ pc["d1"] = "scheduled"
    /\ pdf_files["d1"] # NoFile
    /\ processing_status["d1"].status = "processing"
    /\ pc["d2"] = "done"
    /\ Called(calls["d2"], "extract")

\* the upload handler or the run of d takes this step
StepOf(d) ==
    \/ pc'[d] # pc[d]
    \/ calls'[d] # calls[d]
    \/ upsert_i'[d] # upsert_i[d]
    \/ run_chunks'[d] # run_chunks[d]
    \/ cur = d
    \/ cur' = d

\* C20: the upload handler and the run of d write the status record of d
\* only: a step of theirs leaves the record of every other doc id as it was.
C20_OwnRecordOnly ==
    [][\A d \in Docs : \A e \in Docs \ {d} :
          StepOf(d) => processing_status'[e] = processing_status[e]]_vars

\* the runs of both documents are in flight at different stages
C20_Witness ==
    /\ pc["d1"] = "upserting"
    /\ processing_status["d1"].status = "indexed"
    /\ pc["d2"] = "embedding"
    /\ processing_status["d2"].status = "embedding"

----------------------------------------------------------------------------
(* Claims about get_processing_status, checked under SpecPoll *)

\* get_processing_status(d) answers in this step
Answered(d) == reply' # reply /\ reply'.doc_id = d

\* C16: a status query for a doc id without a status record answers Ready
\* with progress 100 when the document's metadata is stored, and 404 when
\* it is not; when a status record exists the query answers that record.
C16_StatusQuery ==
    [][\A d \in LiveDocs :
          Answered(d) =>
              /\ processing_status[d] # NoStatus =>
                     /\ reply'.code = 200
                     /\ reply'.body = processing_status[d]
              /\ (processing_status[d] = NoStatus
                    /\ meta_files[d] # NoPages) =>
                     /\ reply'.code = 200
                     /\ reply'.body.status = "ready"
                     /\ reply'.body.progress = 100
              /\ (processing_status[d] = NoStatus
                    /\ meta_files[d] = NoPages) =>
                     reply'.code = 404]_vars

\* after a restart the query for the indexed document d1, which has no
\* status record any more, was answered Ready
C16_Witness ==
    /\ reply.doc_id = "d1"
    /\ reply.code = 200
    /\ reply.body.status = "ready"
    /\ processing_status["d1"] = NoStatus
    /\ meta_files["d1"] # NoPages
    /\ \E v \in vectors : v.doc_id = "d1"

\* C17: after a restart that emptied the status map while d was being
\* processed, a status poll for d that finds no status record and no
\* indexed vectors of d reports d as Failed.
C17_OrphanReportedFailed ==
    \A d \in LiveDocs :
        (/\ pc[d] = "orphaned"
         /\ reply.doc_id = d
         /\ processing_status[d] = NoStatus
         /\ \A v \in vectors : v.doc_id # d) =>
            reply.body.status = "failed"

----------------------------------------------------------------------------
(* Claims about the calls of a run, checked under Spec *)

ExternalCalls == {"extract", "embed", "upsert"}

\* C21: a run never retries: extraction, batch embedding and the upsert
\* are each called at most once, and once an external call has failed
\* (raised, or extracted nothing) the run makes no further external call.
C21_NoRetries ==
    [][\A d \in Docs :
          /\ \A name \in ExternalCalls :
                 JustLogged(d, name, "call") => ~Called(calls[d], name)
          /\ Failed(calls[d]) => calls'[d] = calls[d]]_vars

\* the embedding of d1 raised and the upsert of d2 raised: both runs are
\* over after one call of each service they got to
C21_Witness ==
    /\ pc["d1"] = "done"
    /\ Last(calls["d1"]) = Event("embed", "raise", "timeout")
    /\ pc["d2"] = "done"
    /\ Last(calls["d2"]) = Event("upsert", "raise", "timeout")

----------------------------------------------------------------------------
(* Claim about extract_text, checked under SpecPages *)

\* the length of the text extract_text has accumulated before page i
TextBefore(pages, i) == Len(ExtractText(SubSeq(pages, 1, i - 1))[1])

\* C25: the page table built by extract_text has one entry per page with
\* the page numbers 1..n in order, first offset 0, each offset equal to the
\* length of the text accumulated before that page, and offsets strictly
\* increasing from page to page, also when a page has no text.
C25_PageTable ==
    \A d \in LiveDocs :
        pc[d] = "chunking" =>
            LET pb == page_boundaries
                pages == pdf_files[d]
            IN  /\ Len(pb) = Len(pages)
                /\ \A i \in 1..Len(pb) :
                       /\ pb[i][1] = i
                       /\ pb[i][2] = TextBefore(pages, i)
                /\ pb[1][2] = 0
                /\ \A i \in 1..(Len(pb) - 1) : pb[i][2] < pb[i + 1][2]

----------------------------------------------------------------------------
(* Claims about one iteration of the chunking loop, checked under SpecChunk *)

\* one iteration of the loop runs in this step
Iteration == cpc = "body" /\ cpc' = "loop"

\* the tentative end of the iteration, and whether the chunk is not the last
TentativeEnd == start + chunk_size

NonFinal == TentativeEnd < Len(text)

\* the window around the tentative end, as offsets into the text: from
\* Window characters before it, not before the cursor, to Window after it
WindowLo == Max(TentativeEnd - Window, start)

WindowHi == Min(TentativeEnd + Window, Len(text))

\* the offsets in the window at which sep occurs
Occ(sep) ==
    {p \in Max(WindowLo, 0)..(WindowHi - Len(sep)) :
        \A k \in 1..Len(sep) : text[p + k] = sep[k]}

\* the offset right after the right-most occurrence of sep in the window
AfterRightMost(sep) ==
    (CHOOSE p \in Occ(sep) : \A q \in Occ(sep) : q <= p) + Len(sep)

ParagraphBreak == <<"\n", "\n">>

Newline == <<"\n">>

Period == <<".", " ">>

\* C26: separators are tried in the order paragraph break, newline,
\* punctuation followed by a space: when the window of a non-final chunk
\* holds a paragraph break or a newline and also a ". ", the end is placed
\* after the paragraph break, or else the newline.
C26_ParagraphBeforePunctuation ==
    [][(/\ Iteration
        /\ ValidConfig
        /\ NonFinal
        /\ Occ(Newline) # {}
        /\ Occ(Period) # {}) =>
           last_end' = IF Occ(ParagraphBreak) # {}
                       THEN AfterRightMost(ParagraphBreak)
                       ELSE AfterRightMost(Newline)]_vars

\* the separator types that occur in the window, by their place in the
\* list the loop tries
Matching == {i \in 1..Len(Separators) : Occ(Separators[i]) # {}}

\* C27: the end of a non-final chunk is the offset right after the
\* right-most occurrence in the window of the first separator type that
\* occurs there, and cursor + chunk_size when none does; the final chunk
\* is not snapped and ends at len(text).
C27_SnappedEnd ==
    [][(Iteration /\ ValidConfig) =>
           last_end' =
               IF ~NonFinal THEN Len(text)
               ELSE IF Matching = {} THEN TentativeEnd
               ELSE AfterRightMost(
                        Separators[CHOOSE i \in Matching :
                                       \A j \in Matching : i <= j])]_vars

\* C28: after every iteration the cursor is greater than the start_char of
\* the chunk emitted last, or greater than 0 when no chunk has been emitted;
\* it is end - overlap when that is so, and end otherwise.
C28_ForwardProgress ==
    [][(Iteration /\ ValidConfig) =>
           LET floor == IF chunks' # <<>> THEN Last(chunks').start_char
                        ELSE 0
           IN  /\ start' > floor
               /\ start' = IF last_end' - chunk_overlap > floor
                           THEN last_end' - chunk_overlap
                           ELSE last_end']_vars

----------------------------------------------------------------------------
(* The query/answer path *)

QuerySteps == {"embed_query", "search", "generate"}

Returned(q, name) ==
    \E i \in 1..Len(q) : q[i][1] = name /\ q[i][2] = "return"

\* C22: when a chat request has been answered and one of its steps
\* (embedding the query, the vector search, the generation call) raised,
\* the caller got a failure (500), not an answer
C22_FailurePropagates ==
    (qpc = "done" /\ \E name \in QuerySteps : Raised(qcalls, name))
        => response.code = 500

\* C23: when the search of an answered request returned no match, the
\* response is the fixed answer with no sources and the original query,
\* it is not a failure, and the generation call was not made
C23_ZeroMatches ==
    (qpc = "done" /\ Returned(qcalls, "search") /\ matches = {})
        => /\ response = ChatResponse(NoInfoAnswer, {}, request.query)
           /\ response.code = 200
           /\ ~Called(qcalls, "generate")

\* an answered request whose search ran on an empty index
C23_Witness ==
    /\ qpc = "done"
    /\ Returned(qcalls, "search")
    /\ vectors = {}
    /\ matches = {}
    /\ response.answer = NoInfoAnswer

\* C24: once the search of a request that supplied doc_ids (the empty list
\* included) has returned, every match and every source belongs to one of
\* the given documents
C24_FilterRespected ==
    (request.doc_ids.given /\ Returned(qcalls, "search"))
        => /\ \A m \in matches : m.doc_id \in request.doc_ids.ids
           /\ \A m \in response.sources : m.doc_id \in request.doc_ids.ids

----------------------------------------------------------------------------
(* Deleting and failing while vectors are written *)

HasVectors(vs, d) == \E v \in vs : v.doc_id = d

\* the Document Store holds neither the PDF nor the metadata of d
NotStored(d) == pdf_files[d] = NoFile /\ meta_files[d] = NoPages

\* C29: the run of a document that was deleted while the run was in flight
\* goes on: a batch it upserts after the delete has completed puts vectors
\* of the doc id into the index, and the Document Store still has no such
\* document
C29_UpsertAfterDelete ==
    [][\A d \in Docs :
          (delpc[d] = "200" /\ NotStored(d) /\ upsert_i'[d] # upsert_i[d]
           /\ pc'[d] = "upserting")
              => (HasVectors(vectors', d) /\ pdf_files'[d] = NoFile
                  /\ meta_files'[d] = NoPages)]_vars

\* the delete of d has completed, the Document Store has no d, and the
\* index holds vectors of d that the run upserted afterwards
C29_Witness ==
    \E d \in Docs :
        /\ delpc[d] = "200"
        /\ NotStored(d)
        /\ Called(calls[d], "upsert")
        /\ HasVectors(vectors, d)

\* C30: while the status of a document is Failed the index holds no vector
\* of it
C30_FailedHasNoVectors ==
    \A d \in Docs :
        (processing_status[d] # NoStatus
         /\ processing_status[d].status = "failed")
            => ~HasVectors(vectors, d)

----------------------------------------------------------------------------
(* Ready and the index *)

VectorsOf(vs, d) == {v \in vs : v.doc_id = d}

\* one vector per chunk of cs: id '<d>_chunk_<i>' and the page of chunk i
ExpectedVectors(d, cs) ==
    {[id |-> <<d, "_chunk_", ToString(i)>>, doc_id |-> d, chunk_index |-> i,
      page_num |-> cs[i + 1].page_num] : i \in 0..(Len(cs) - 1)}

\* C31: when a run writes Ready for a document for which no delete was
\* requested, every batch has been upserted and the index holds exactly one
\* vector per emitted chunk, with id '<doc_id>_chunk_<i>' for i in 0..N-1
\* and the page number of chunk i
C31_ReadyMeansIndexed ==
    [][\A d \in Docs :
          (processing_status'[d].status = "ready"
           /\ processing_status[d].status # "ready"
           /\ delpc[d] = "none")
              => /\ upsert_i[d] >= Len(run_chunks[d])
                 /\ VectorsOf(vectors', d) = ExpectedVectors(d, run_chunks[d])
                 /\ Cardinality(VectorsOf(vectors', d)) = Len(run_chunks[d])]_vars

\* a run has written Ready for a document of several chunks that nobody
\* asked to delete, and its vectors are in the index
C31_Witness ==
    \E d \in Docs :
        /\ processing_status[d].status = "ready"
        /\ pc[d] = "done"
        /\ delpc[d] = "none"
        /\ Len(run_chunks[d]) >= 2
        /\ VectorsOf(vectors, d) = ExpectedVectors(d, run_chunks[d])

----------------------------------------------------------------------------
(* Deleting what is not there *)

\* C34: when delete_document answers for a doc id of which the Document
\* Store holds neither the PDF nor the metadata, and the deletion of the
\* vectors did not fail, the answer is 404
C34_DeleteMissingIsNotFound ==
    [][\A d \in Docs :
          (delpc[d] = "vectors" /\ delpc'[d] \in {"200", "404"}
           /\ NotStored(d))
              => delpc'[d] = "404"]_vars

----------------------------------------------------------------------------
(* The ends of consecutive chunks *)

\* C32: in a valid configuration, when an iteration appends a chunk after
\* another one, the end of its slice is greater than the end of the slice
\* of the chunk before it
C32_EndsIncrease ==
    [][(ValidConfig /\ cpc = "body" /\ chunks # <<>>
        /\ Len(chunks') = Len(chunks) + 1)
           => chunk_end' > chunk_end]_vars

----------------------------------------------------------------------------
(* Status records come to an end *)

Settled(d) ==
    \/ processing_status[d] = NoStatus
    \/ processing_status[d].status \in {"ready", "failed"}

\* C33: a status record in the map is eventually Ready or Failed or is
\* removed, every awaited call returning or raising
C33_RecordSettles ==
    \A d \in LiveDocs : (processing_status[d] # NoStatus) ~> Settled(d)

----------------------------------------------------------------------------
(* Rejected uploads *)

\* C35: an upload that is answered 400 by the validation creates no status
\* record, writes nothing to the Document Store, generates no doc id and
\* schedules no task: nothing but the answer changes
C35_RejectedUploadChangesNothing ==
    [][(upload_reply' # upload_reply /\ upload_reply'.code = 400)
          => UNCHANGED <<processing_status, pdf_files, meta_files, vectors,
                         used_ids, pc, delpc, run_chunks, run_pages,
                         upsert_i, calls, cur, cvars>>]_vars

\* a file of more than 50 MB was rejected while a document is stored and
\* its run is not over
C35_Witness ==
    /\ upload_reply.code = 400
    /\ upload_reply.detail = "File too large. Maximum size is 50MB"
    /\ \E d \in Docs : pdf_files[d] # NoFile /\ pc[d] \in InFlight

----------------------------------------------------------------------------
(* The length of a slice *)

\* C36: the slice of every iteration of the loop is not empty, ends in the
\* text and is at most chunk_size + 50 long, and so is the text of the
\* chunk it appends, whatever the configuration
C36_SliceBounds ==
    [][(cpc = "body" /\ cpc' = "loop")
          => /\ start < last_end'
             /\ last_end' <= Len(text)
             /\ last_end' - start <= chunk_size + Window
             /\ Len(chunks') > Len(chunks)
                    => Len(chunks'[Len(chunks')].text) <= chunk_size + Window]_vars

====
